---- MODULE Spec2Model ----
(***************************************************************************)
(* decimal-js: arbitrary precision Decimal (digits * 10^-scale) and        *)
(* Rational (numerator / denominator) values built on BigInt.              *)
(*                                                                         *)
(* Values are immutable and every method is a function of its receiver    *)
(* and arguments.  A state of the model is one call: its receiver (none,   *)
(* undefined, for a constructor or a static function), the call made on it *)
(* (call) and what the call returned or threw (ret).                       *)
(*                                                                         *)
(* Strings are sequences of one-character strings.  A thrown exception is  *)
(* a record whose type is the exception's class; it propagates through     *)
(* every caller exactly as a JavaScript throw does.                        *)
(***************************************************************************)
EXTENDS Integers, Sequences, FiniteSets

VARIABLES receiver, call, ret

vars == <<receiver, call, ret>>

(***************************************************************************)
(* Bounds of the model.                                                    *)
(***************************************************************************)
MaxDigits == 30

MaxScale == 2

MaxNumerator == 10

MaxDenominator == 10

MaxOperands == 2

MaxOperandDigits == 1

MaxOperandScale == 1

MaxInteger == 5

MaxFactor == 2

MaxLength == 3

(***************************************************************************)
(* Thrown exceptions and primitive results.                                *)
(***************************************************************************)
RangeError(message) == [type |-> "RangeError", message |-> message]

SyntaxError(message) == [type |-> "SyntaxError", message |-> message]

BigInt(n) == [type |-> "BigInt", value |-> n]

Boolean(b) == [type |-> "Boolean", value |-> b]

String(chars) == [type |-> "String", chars |-> chars]

undefined == [type |-> "undefined"]

IsError(v) == v.type \in {"RangeError", "SyntaxError"}

(***************************************************************************)
(* BigInt operators: / truncates toward zero, % takes the sign of the      *)
(* dividend, ** is exponentiation.                                         *)
(***************************************************************************)
Quotient(a, b) ==
    IF a >= 0
    THEN (IF b > 0 THEN a \div b ELSE -(a \div (-b)))
    ELSE (IF b > 0 THEN -((-a) \div b) ELSE (-a) \div (-b))

Remainder(a, b) == a - b * Quotient(a, b)

RECURSIVE Power(_, _)
Power(base, exponent) ==
    IF exponent = 0 THEN 1 ELSE base * Power(base, exponent - 1)

(***************************************************************************)
(* String(bigint) and BigInt(string), over the characters the model uses:  *)
(* decimal digits, "-", "." and " ".                                       *)
(***************************************************************************)
DigitChars == <<"0", "1", "2", "3", "4", "5", "6", "7", "8", "9">>

IsDigitChar(c) == \E i \in 1..10 : DigitChars[i] = c

DigitValue(c) == (CHOOSE i \in 1..10 : DigitChars[i] = c) - 1

RECURSIVE NaturalToChars(_)
NaturalToChars(n) ==
    IF n < 10 THEN <<DigitChars[n + 1]>>
    ELSE NaturalToChars(n \div 10) \o <<DigitChars[(n % 10) + 1]>>

BigIntToChars(n) ==
    IF n < 0 THEN <<"-">> \o NaturalToChars(-n) ELSE NaturalToChars(n)

RECURSIVE trim(_)
trim(s) ==
    IF Len(s) = 0 THEN s
    ELSE IF Head(s) = " " THEN trim(Tail(s))
    ELSE IF s[Len(s)] = " " THEN trim(SubSeq(s, 1, Len(s) - 1))
    ELSE s

RECURSIVE CharsToNatural(_)
CharsToNatural(s) ==
    IF Len(s) = 0 THEN 0
    ELSE 10 * CharsToNatural(SubSeq(s, 1, Len(s) - 1)) + DigitValue(s[Len(s)])

AllDigits(s) == Len(s) > 0 /\ \A i \in 1..Len(s) : IsDigitChar(s[i])

StringToBigInt(s) ==
    LET t == trim(s) IN
    IF Len(t) = 0 THEN BigInt(0)
    ELSE IF AllDigits(t) THEN BigInt(CharsToNatural(t))
    ELSE IF Head(t) = "-" /\ AllDigits(Tail(t)) THEN BigInt(-CharsToNatural(Tail(t)))
    ELSE SyntaxError("Cannot convert to a BigInt")

(***************************************************************************)
(* integer.js                                                              *)
(***************************************************************************)
Integer(value) ==
    LET t == trim(value)
        v == IF Len(t) = 0 THEN <<"N", "a", "N">> ELSE t
    IN StringToBigInt(v)

IntegerOf(n) == Integer(BigIntToChars(n))

max(x, y) == IF x > y THEN x ELSE y

min(x, y) == IF x > y THEN x ELSE y

abs(n) == IF n >= 0 THEN n ELSE -n

sign(n) == IF n > 0 THEN 1 ELSE IF n < 0 THEN -1 ELSE 0

RECURSIVE greatestCommonDivisor(_, _)
greatestCommonDivisor(x, y) ==
    IF y = 0 THEN x ELSE greatestCommonDivisor(y, Remainder(x, y))

leastCommonMultiple(x, y) == Quotient(x * y, greatestCommonDivisor(x, y))

RECURSIVE primeFactorsFrom(_, _)
primeFactorsFrom(dividend, divisor) ==
    IF dividend < 2 THEN <<>>
    ELSE IF Remainder(dividend, divisor) = 0
         THEN <<divisor>> \o primeFactorsFrom(Quotient(dividend, divisor), divisor)
         ELSE primeFactorsFrom(dividend, divisor + 1)

primeFactors(dividend) ==
    primeFactorsFrom(IF dividend < 0 THEN -dividend ELSE dividend, 2)

distinctPrimeFactors(dividend) ==
    LET factors == primeFactors(dividend)
    IN {factors[i] : i \in DOMAIN factors}

isTerminating(dividend, divisor) ==
    LET distinct == distinctPrimeFactors(dividend)
        factors == primeFactors(divisor)
    IN \A i \in DOMAIN factors : factors[i] \in distinct

(***************************************************************************)
(* Constructors.                                                           *)
(***************************************************************************)
Rational(numerator, denominator) ==
    LET n == IntegerOf(numerator)
        d == IntegerOf(denominator)
    IN IF IsError(n) THEN n
       ELSE IF IsError(d) THEN d
       ELSE IF d.value <= 0
            THEN RangeError("Rational denominator must be greater than zero")
            ELSE [type |-> "Rational", numerator |-> n.value, denominator |-> d.value]

(* A faulty constructor that forgets the range check on scale; C7 fails of it. *)
Decimal_unvalidated(digits, scale) ==
    LET d == IntegerOf(digits)
        s == IntegerOf(scale)
    IN IF IsError(d) THEN d
       ELSE IF IsError(s) THEN s
       ELSE [type |-> "Decimal", digits |-> d.value, scale |-> s.value]

Decimal(digits, scale) ==
    LET d == IntegerOf(digits)
        s == IntegerOf(scale)
    IN IF IsError(d) THEN d
       ELSE IF IsError(s) THEN s
       ELSE IF s.value < 0
            THEN RangeError("Decimal scale must be greater than or equal to zero")
            ELSE [type |-> "Decimal", digits |-> d.value, scale |-> s.value]

(***************************************************************************)
(* Rational: arithmetic.                                                   *)
(***************************************************************************)
RECURSIVE Rational_plus_loop(_, _, _, _)
Rational_plus_loop(numerator, denominator, those, i) ==
    IF i > Len(those) THEN Rational(numerator, denominator)
    ELSE LET that == those[i]
             lcm == leastCommonMultiple(denominator, that.denominator)
             u == Quotient(lcm, denominator)
             v == Quotient(lcm, that.denominator)
         IN Rational_plus_loop(numerator * u + that.numerator * v,
                               denominator * u, those, i + 1)

Rational_plus(this, those) ==
    Rational_plus_loop(this.numerator, this.denominator, those, 1)

RECURSIVE Rational_minus_loop(_, _, _, _)
Rational_minus_loop(numerator, denominator, those, i) ==
    IF i > Len(those) THEN Rational(numerator, denominator)
    ELSE LET that == those[i]
             lcm == leastCommonMultiple(denominator, that.denominator)
             factor == Quotient(lcm, denominator)
         IN Rational_minus_loop(
                numerator * factor - Quotient(that.numerator * lcm, that.denominator),
                denominator * factor, those, i + 1)

Rational_minus(this, those) ==
    Rational_minus_loop(this.numerator, this.denominator, those, 1)

RECURSIVE Rational_times_loop(_, _, _, _)
Rational_times_loop(numerator, denominator, those, i) ==
    IF i > Len(those) THEN Rational(numerator, denominator)
    ELSE LET that == those[i]
         IN Rational_times_loop(numerator * that.numerator,
                                denominator * that.denominator, those, i + 1)

Rational_times(this, those) ==
    Rational_times_loop(this.numerator, this.denominator, those, 1)

(* A faulty division that does not move the sign of a negative divisor to  *)
(* the numerator; C6 fails of it.                                          *)
RECURSIVE Rational_dividedBy_loop_unsigned(_, _, _, _)
Rational_dividedBy_loop_unsigned(numerator, denominator, those, i) ==
    IF i > Len(those) THEN Rational(numerator, denominator)
    ELSE LET that == those[i]
         IN IF that.numerator # 0
            THEN Rational_dividedBy_loop_unsigned(numerator * that.denominator,
                                                  denominator * that.numerator,
                                                  those, i + 1)
            ELSE LET received == Rational(numerator, denominator)
                 IN IF IsError(received) THEN received
                    ELSE RangeError("Rational cannot divide by zero")

RECURSIVE Rational_dividedBy_loop(_, _, _, _)
Rational_dividedBy_loop(numerator, denominator, those, i) ==
    IF i > Len(those) THEN Rational(numerator, denominator)
    ELSE LET that == those[i]
         IN IF that.numerator > 0
            THEN Rational_dividedBy_loop(numerator * that.denominator,
                                         denominator * that.numerator, those, i + 1)
            ELSE IF that.numerator < 0
            THEN Rational_dividedBy_loop(numerator * (-that.denominator),
                                         denominator * (-that.numerator), those, i + 1)
            ELSE LET received == Rational(numerator, denominator)
                 IN IF IsError(received) THEN received
                    ELSE RangeError("Rational cannot divide by zero")

Rational_dividedBy(this, those) ==
    Rational_dividedBy_loop(this.numerator, this.denominator, those, 1)

Rational_simplify(this) ==
    LET gcd == greatestCommonDivisor(this.numerator, this.denominator)
    IN Rational(Quotient(this.numerator, gcd), Quotient(this.denominator, gcd))

Rational_inverse(this) ==
    IF this.numerator >= 0
    THEN Rational(this.denominator, this.numerator)
    ELSE Rational(-this.denominator, -this.numerator)

Rational_negation(this) == Rational(-this.numerator, this.denominator)

Rational_abs(this) == Rational(abs(this.numerator), this.denominator)

(***************************************************************************)
(* Rational: comparison.  The predicate is applied to the two operands     *)
(* aligned to the least common multiple of the denominators; compare       *)
(* returns the aligned pair, or the exception thrown while aligning.       *)
(***************************************************************************)
Rational_compare(this, that) ==
    LET lcm == leastCommonMultiple(this.denominator, that.denominator)
        u == Quotient(lcm, this.denominator)
        v == Quotient(lcm, that.denominator)
        uu == Rational(u, u)
        vv == Rational(v, v)
    IN IF IsError(uu) THEN uu
       ELSE LET x == Rational_times(this, <<uu>>)
            IN IF IsError(x) THEN x
               ELSE IF IsError(vv) THEN vv
               ELSE LET y == Rational_times(that, <<vv>>)
                    IN IF IsError(y) THEN y
                       ELSE [type |-> "Aligned", x |-> x, y |-> y]

(* A faulty equality that compares the numerators as stored; C8 fails of it. *)
Rational_equalTo_unaligned(this, that) ==
    Boolean(this.numerator = that.numerator)

Rational_equalTo(this, that) ==
    LET aligned == Rational_compare(this, that)
    IN IF IsError(aligned) THEN aligned
       ELSE Boolean(aligned.x.numerator = aligned.y.numerator)

(***************************************************************************)
(* Rational: conversion.                                                   *)
(***************************************************************************)
RECURSIVE Rational_toDecimal_loop(_, _, _, _, _, _)
Rational_toDecimal_loop(digits, remainder, s, denominator, unlimited, limit) ==
    IF remainder # 0 /\ (unlimited \/ s < limit)
    THEN Rational_toDecimal_loop(
             digits * 10 + Quotient(remainder * 10, denominator),
             Remainder(remainder * 10, denominator),
             s + 1, denominator, unlimited, limit)
    ELSE digits

Rational_toDecimal(this, scale) ==
    LET unlimited == isTerminating(10, this.denominator)
        limit == IF unlimited THEN BigInt(0) ELSE IntegerOf(scale)
    IN IF IsError(limit) THEN limit
       ELSE Decimal(Rational_toDecimal_loop(
                        Quotient(this.numerator, this.denominator),
                        Remainder(this.numerator, this.denominator),
                        0, this.denominator, unlimited, limit.value),
                    scale)

(***************************************************************************)
(* Decimal: arithmetic.                                                    *)
(***************************************************************************)
RECURSIVE Decimal_plus_loop(_, _, _, _)
Decimal_plus_loop(digits, scale, those, i) ==
    IF i > Len(those) THEN Decimal(digits, scale)
    ELSE LET that == those[i]
         IN IF scale > that.scale
            THEN Decimal_plus_loop(
                     digits + that.digits * Power(10, scale - that.scale),
                     scale, those, i + 1)
            ELSE Decimal_plus_loop(
                     digits * Power(10, that.scale - scale) + that.digits,
                     that.scale, those, i + 1)

Decimal_plus(this, those) ==
    Decimal_plus_loop(this.digits, this.scale, those, 1)

(* A faulty subtraction that does not rescale the running digits when the  *)
(* operand has the larger scale; C1 fails of it.                           *)
RECURSIVE Decimal_minus_loop_unscaled(_, _, _, _)
Decimal_minus_loop_unscaled(digits, scale, those, i) ==
    IF i > Len(those) THEN Decimal(digits, scale)
    ELSE LET that == those[i]
         IN IF scale > that.scale
            THEN Decimal_minus_loop_unscaled(
                     digits - that.digits * Power(10, scale - that.scale),
                     scale, those, i + 1)
            ELSE Decimal_minus_loop_unscaled(
                     digits - that.digits, that.scale, those, i + 1)

RECURSIVE Decimal_minus_loop(_, _, _, _)
Decimal_minus_loop(digits, scale, those, i) ==
    IF i > Len(those) THEN Decimal(digits, scale)
    ELSE LET that == those[i]
         IN IF scale > that.scale
            THEN Decimal_minus_loop(
                     digits - that.digits * Power(10, scale - that.scale),
                     scale, those, i + 1)
            ELSE Decimal_minus_loop(
                     digits * Power(10, that.scale - scale) - that.digits,
                     that.scale, those, i + 1)

Decimal_minus(this, those) ==
    Decimal_minus_loop(this.digits, this.scale, those, 1)

RECURSIVE Decimal_times_loop(_, _, _, _)
Decimal_times_loop(digits, scale, those, i) ==
    IF i > Len(those) THEN Decimal(digits, scale)
    ELSE LET that == those[i]
         IN Decimal_times_loop(digits * that.digits, scale + that.scale,
                               those, i + 1)

Decimal_times(this, those) ==
    Decimal_times_loop(this.digits, this.scale, those, 1)

Decimal_toRational(this) == Rational(this.digits, Power(10, this.scale))

RECURSIVE Decimal_dividedBy_map(_, _)
Decimal_dividedBy_map(those, i) ==
    IF i > Len(those) THEN <<>>
    ELSE <<Decimal_toRational(those[i])>> \o Decimal_dividedBy_map(those, i + 1)

Decimal_dividedBy(this, those) ==
    LET dividend == Decimal_toRational(this)
        divisors == Decimal_dividedBy_map(those, 1)
    IN IF IsError(dividend) THEN dividend
       ELSE IF \E i \in DOMAIN divisors : IsError(divisors[i])
            THEN divisors[CHOOSE i \in DOMAIN divisors :
                              /\ IsError(divisors[i])
                              /\ \A j \in 1..(i - 1) : ~IsError(divisors[j])]
            ELSE Rational_dividedBy(dividend, divisors)

RECURSIVE Decimal_simplify_loop(_, _)
Decimal_simplify_loop(digits, scale) ==
    IF scale > 0 /\ Remainder(digits, 10) = 0
    THEN Decimal_simplify_loop(Quotient(digits, 10), scale - 1)
    ELSE Decimal(digits, scale)

Decimal_simplify(this) == Decimal_simplify_loop(this.digits, this.scale)

Decimal_toScale(this, scale) ==
    LET target == IntegerOf(scale)
    IN IF IsError(target) THEN target
       ELSE LET difference == target.value - this.scale
            IN IF difference > 0
               THEN Decimal(this.digits * Power(10, difference), target.value)
               ELSE IF difference < 0
               THEN Decimal(Quotient(this.digits, Power(10, -difference)), target.value)
               ELSE this

Decimal_inverse(this) ==
    LET rational == Decimal_toRational(this)
    IN IF IsError(rational) THEN rational ELSE Rational_inverse(rational)

Decimal_negation(this) == Decimal(-this.digits, this.scale)

Decimal_abs(this) == Decimal(abs(this.digits), this.scale)

(***************************************************************************)
(* Decimal: comparison, on the operands aligned to the larger scale.       *)
(***************************************************************************)
Decimal_compare(this, that) ==
    LET scale == max(this.scale, that.scale)
        x == Decimal_toScale(this, scale)
    IN IF IsError(x) THEN x
       ELSE LET y == Decimal_toScale(that, scale)
            IN IF IsError(y) THEN y
               ELSE [type |-> "Aligned", x |-> x, y |-> y]

Decimal_equalTo(this, that) ==
    LET aligned == Decimal_compare(this, that)
    IN IF IsError(aligned) THEN aligned
       ELSE Boolean(aligned.x.digits = aligned.y.digits)

(***************************************************************************)
(* Decimal: conversion.                                                    *)
(***************************************************************************)
RECURSIVE Decimal_toString_loop(_, _, _)
Decimal_toString_loop(string, digits, scale) ==
    IF scale > 0
    THEN LET last == IF Len(digits) > 0 THEN digits[Len(digits)] ELSE "0"
             rest == IF Len(digits) > 0
                     THEN SubSeq(digits, 1, Len(digits) - 1) ELSE digits
             shifted == <<last>> \o string
         IN Decimal_toString_loop(
                IF scale - 1 = 0 THEN <<".">> \o shifted ELSE shifted,
                rest, scale - 1)
    ELSE [string |-> string, digits |-> digits]

Decimal_toString(this) ==
    LET after == Decimal_toString_loop(<<>>, BigIntToChars(this.digits), this.scale)
        digits == IF Len(after.digits) = 0
                     \/ (Len(after.digits) = 1 /\ after.digits[1] = "-")
                  THEN Append(after.digits, "0")
                  ELSE after.digits
    IN digits \o after.string

includes(s, c) == \E i \in 1..Len(s) : s[i] = c

indexOf(s, c) ==
    IF includes(s, c)
    THEN (CHOOSE i \in 1..Len(s) : s[i] = c /\ \A j \in 1..(i - 1) : s[j] # c) - 1
    ELSE -1

replace(s, c) ==
    IF includes(s, c)
    THEN SubSeq(s, 1, indexOf(s, c)) \o SubSeq(s, indexOf(s, c) + 2, Len(s))
    ELSE s

Decimal_fromString(string) ==
    LET s == trim(string)
        scale == IF includes(s, ".")
                 THEN IntegerOf(Len(s) - 1 - indexOf(s, "."))
                 ELSE BigInt(0)
    IN IF IsError(scale) THEN scale
       ELSE LET digits == Integer(replace(s, "."))
            IN IF IsError(digits) THEN digits
               ELSE Decimal(digits.value, scale.value)

d(strings) == Decimal_fromString(strings[1])

(***************************************************************************)
(* Receivers and arguments of the calls.                                   *)
(***************************************************************************)
Decimals ==
    {Decimal(digits, scale) :
        digits \in -MaxDigits..MaxDigits, scale \in 0..MaxScale}

Rationals ==
    {Rational(numerator, denominator) :
        numerator \in -MaxNumerator..MaxNumerator,
        denominator \in 1..MaxDenominator}

Lists(S) == UNION {[1..n -> S] : n \in 1..MaxOperands}

OperandDigits == {-MaxOperandDigits, 0, MaxOperandDigits}

DecimalOperands ==
    {Decimal(digits, scale) :
        digits \in OperandDigits, scale \in {0, MaxOperandScale}}

RationalOperands ==
    {Rational(numerator, denominator) :
        numerator \in OperandDigits, denominator \in {1, MaxFactor}}

Chars == {" ", "-", ".", "0", "1", "5"}

Literals == UNION {[1..n -> Chars] : n \in 0..MaxLength}

(***************************************************************************)
(* A call starts from a constructed receiver, or from nothing for a        *)
(* constructor or a static function, and ends by returning or throwing.    *)
(***************************************************************************)
NotCalled == [op |-> "", args |-> <<>>]

On(type) == call = NotCalled /\ receiver.type = type

Return(op, args, result) ==
    /\ call' = [op |-> op, args |-> args]
    /\ ret' = result
    /\ UNCHANGED receiver

Init ==
    /\ receiver \in Decimals \cup Rationals \cup {undefined}
    /\ call = NotCalled
    /\ ret = undefined

NewDecimal ==
    /\ On("undefined")
    /\ \E digits \in -MaxDigits..MaxDigits, scale \in -MaxScale..MaxScale :
           Return("new Decimal", <<digits, scale>>, Decimal(digits, scale))

NewRational ==
    /\ On("undefined")
    /\ \E numerator \in -MaxNumerator..MaxNumerator,
          denominator \in -MaxDenominator..MaxDenominator :
           Return("new Rational", <<numerator, denominator>>,
                  Rational(numerator, denominator))

IntegerMax ==
    /\ On("undefined")
    /\ \E x \in -MaxInteger..MaxInteger, y \in -MaxInteger..MaxInteger :
           Return("max", <<x, y>>, BigInt(max(x, y)))

IntegerMin ==
    /\ On("undefined")
    /\ \E x \in -MaxInteger..MaxInteger, y \in -MaxInteger..MaxInteger :
           Return("min", <<x, y>>, BigInt(min(x, y)))

DecimalFromString ==
    /\ On("undefined")
    /\ \E string \in Literals :
           Return("Decimal.fromString", <<string>>, Decimal_fromString(string))

DecimalLiteral ==
    /\ On("undefined")
    /\ \E string \in Literals :
           Return("d", <<string>>, d(<<string>>))

DecimalPlus ==
    /\ On("Decimal")
    /\ \E those \in Lists(DecimalOperands) :
           Return("Decimal.plus", those, Decimal_plus(receiver, those))

DecimalMinus ==
    /\ On("Decimal")
    /\ \E those \in Lists(DecimalOperands) :
           Return("Decimal.minus", those, Decimal_minus(receiver, those))

DecimalTimes ==
    /\ On("Decimal")
    /\ \E those \in Lists(DecimalOperands) :
           Return("Decimal.times", those, Decimal_times(receiver, those))

DecimalDividedBy ==
    /\ On("Decimal")
    /\ \E those \in Lists(DecimalOperands) :
           Return("Decimal.dividedBy", those, Decimal_dividedBy(receiver, those))

DecimalSimplify ==
    /\ On("Decimal")
    /\ Return("Decimal.simplify", <<>>, Decimal_simplify(receiver))

DecimalToScale ==
    /\ On("Decimal")
    /\ \E scale \in -1..(MaxScale + 1) :
           Return("Decimal.toScale", <<scale>>, Decimal_toScale(receiver, scale))

DecimalInverse ==
    /\ On("Decimal")
    /\ Return("Decimal.inverse", <<>>, Decimal_inverse(receiver))

DecimalNegation ==
    /\ On("Decimal")
    /\ Return("Decimal.negation", <<>>, Decimal_negation(receiver))

DecimalAbs ==
    /\ On("Decimal")
    /\ Return("Decimal.abs", <<>>, Decimal_abs(receiver))

DecimalSign ==
    /\ On("Decimal")
    /\ Return("Decimal.sign", <<>>, BigInt(sign(receiver.digits)))

DecimalEqualTo ==
    /\ On("Decimal")
    /\ \E that \in DecimalOperands :
           Return("Decimal.equalTo", <<that>>, Decimal_equalTo(receiver, that))

DecimalToString ==
    /\ On("Decimal")
    /\ Return("Decimal.toString", <<>>, String(Decimal_toString(receiver)))

DecimalToRational ==
    /\ On("Decimal")
    /\ Return("Decimal.toRational", <<>>, Decimal_toRational(receiver))

RationalPlus ==
    /\ On("Rational")
    /\ \E those \in Lists(RationalOperands) :
           Return("Rational.plus", those, Rational_plus(receiver, those))

RationalMinus ==
    /\ On("Rational")
    /\ \E those \in Lists(RationalOperands) :
           Return("Rational.minus", those, Rational_minus(receiver, those))

RationalTimes ==
    /\ On("Rational")
    /\ \E those \in Lists(RationalOperands) :
           Return("Rational.times", those, Rational_times(receiver, those))

RationalDividedBy ==
    /\ On("Rational")
    /\ \E those \in Lists(RationalOperands) :
           Return("Rational.dividedBy", those, Rational_dividedBy(receiver, those))

RationalSimplify ==
    /\ On("Rational")
    /\ Return("Rational.simplify", <<>>, Rational_simplify(receiver))

RationalInverse ==
    /\ On("Rational")
    /\ Return("Rational.inverse", <<>>, Rational_inverse(receiver))

RationalNegation ==
    /\ On("Rational")
    /\ Return("Rational.negation", <<>>, Rational_negation(receiver))

RationalAbs ==
    /\ On("Rational")
    /\ Return("Rational.abs", <<>>, Rational_abs(receiver))

RationalSign ==
    /\ On("Rational")
    /\ Return("Rational.sign", <<>>, BigInt(sign(receiver.numerator)))

(***************************************************************************)
(* equalTo(new Rational(numerator, denominator)): the argument is          *)
(* constructed first, and equalTo is not reached when that throws.         *)
(***************************************************************************)
RationalEqualTo ==
    /\ On("Rational")
    /\ \E pair \in
            {<<receiver.numerator * k, receiver.denominator * k>> : k \in -MaxFactor..MaxFactor}
            \cup {<<o.numerator, o.denominator>> : o \in RationalOperands} :
           LET that == Rational(pair[1], pair[2])
           IN Return("Rational.equalTo", pair,
                     IF IsError(that) THEN that ELSE Rational_equalTo(receiver, that))

(* The scale is always passed: the expansion of a non-terminating fraction *)
(* to the default scale of 16 places exceeds the integers of the model.    *)
RationalToDecimal ==
    /\ On("Rational")
    /\ \E scale \in -1..(MaxScale + 1) :
           Return("Rational.toDecimal", <<scale>>, Rational_toDecimal(receiver, scale))

Next ==
    \/ NewDecimal
    \/ NewRational
    \/ IntegerMax
    \/ IntegerMin
    \/ DecimalFromString
    \/ DecimalLiteral
    \/ DecimalPlus
    \/ DecimalMinus
    \/ DecimalTimes
    \/ DecimalDividedBy
    \/ DecimalSimplify
    \/ DecimalToScale
    \/ DecimalInverse
    \/ DecimalNegation
    \/ DecimalAbs
    \/ DecimalSign
    \/ DecimalEqualTo
    \/ DecimalToString
    \/ DecimalToRational
    \/ RationalPlus
    \/ RationalMinus
    \/ RationalTimes
    \/ RationalDividedBy
    \/ RationalSimplify
    \/ RationalInverse
    \/ RationalNegation
    \/ RationalAbs
    \/ RationalSign
    \/ RationalEqualTo
    \/ RationalToDecimal

Spec == Init /\ [][Next]_vars

(***************************************************************************)
(* Arithmetic of the properties, independent of the operators above.       *)
(***************************************************************************)
RECURSIVE TenTo(_)
TenTo(k) == IF k = 0 THEN 1 ELSE 10 * TenTo(k - 1)

Magnitude(n) == IF n < 0 THEN -n ELSE n

TruncatedQuotient(n, m) ==
    IF n < 0 THEN -((-n) \div m) ELSE n \div m

RECURSIVE CommonDivisor(_, _)
CommonDivisor(a, b) == IF b = 0 THEN a ELSE CommonDivisor(b, a % b)

Coprime(a, b) == CommonDivisor(Magnitude(a), Magnitude(b)) = 1

LowestTerms(p, q) ==
    LET g == CommonDivisor(Magnitude(p), Magnitude(q))
        s == IF (p < 0) = (q < 0) THEN 1 ELSE -1
    IN <<s * (Magnitude(p) \div g), Magnitude(q) \div g>>

OnlyTwosAndFives(n) ==
    \A p \in 2..n : (n % p = 0 /\ \A q \in 2..(p - 1) : p % q # 0) => p \in {2, 5}

LargestScale(a, those) ==
    LET scales == {a.scale} \cup {those[i].scale : i \in DOMAIN those}
    IN CHOOSE m \in scales : \A s \in scales : s <= m

RECURSIVE DigitsAtScale(_, _, _)
DigitsAtScale(those, i, scale) ==
    IF i > Len(those) THEN 0
    ELSE those[i].digits * TenTo(scale - those[i].scale)
         + DigitsAtScale(those, i + 1, scale)

RECURSIVE NumeratorProduct(_, _)
NumeratorProduct(those, i) ==
    IF i > Len(those) THEN 1
    ELSE those[i].numerator * NumeratorProduct(those, i + 1)

RECURSIVE DenominatorProduct(_, _)
DenominatorProduct(those, i) ==
    IF i > Len(those) THEN 1
    ELSE those[i].denominator * DenominatorProduct(those, i + 1)

RECURSIVE DigitsProduct(_, _)
DigitsProduct(those, i) ==
    IF i > Len(those) THEN 1
    ELSE those[i].digits * DigitsProduct(those, i + 1)

RECURSIVE ScaleSum(_, _)
ScaleSum(those, i) ==
    IF i > Len(those) THEN 0
    ELSE those[i].scale + ScaleSum(those, i + 1)

DivisionByZero(v) ==
    v.type = "RangeError" /\ v.message = "Rational cannot divide by zero"

DecimalForm(s, scale) ==
    LET body == IF Len(s) > 0 /\ s[1] = "-" THEN Tail(s) ELSE s
        digit(c) == c \in {"0", "1", "2", "3", "4", "5", "6", "7", "8", "9"}
    IN IF scale = 0
       THEN Len(body) >= 1 /\ \A i \in 1..Len(body) : digit(body[i])
       ELSE /\ Len(body) >= scale + 2
            /\ body[Len(body) - scale] = "."
            /\ \A i \in 1..Len(body) : i # Len(body) - scale => digit(body[i])

(***************************************************************************)
(* C1: plus and minus return a Decimal whose scale is the largest scale    *)
(* among the receiver and the operands, and whose digits are the exact sum *)
(* (the receiver minus the sum of the operands, for minus) of all digits   *)
(* rescaled to that scale.                                                 *)
(***************************************************************************)
C1_PlusMinusExact ==
    call.op \in {"Decimal.plus", "Decimal.minus"} =>
        LET scale == LargestScale(receiver, call.args)
            mine == receiver.digits * TenTo(scale - receiver.scale)
            theirs == DigitsAtScale(call.args, 1, scale)
        IN /\ ret.type = "Decimal"
           /\ ret.scale = scale
           /\ ret.digits = IF call.op = "Decimal.plus" THEN mine + theirs
                                                       ELSE mine - theirs

C1_Witness ==
    /\ call.op = "Decimal.minus"
    /\ Len(call.args) = 2
    /\ receiver.digits # 0
    /\ call.args[1].scale > receiver.scale
    /\ call.args[2].scale < call.args[1].scale
    /\ call.args[1].digits # 0
    /\ call.args[2].digits # 0
    /\ ret.type = "Decimal"
    /\ ret.scale = call.args[1].scale

(***************************************************************************)
(* C2: for every Decimal a, a.toRational().toDecimal(a.scale).equalTo(a)   *)
(* is true.                                                                *)
(***************************************************************************)
C2_RationalRoundTrip ==
    call.op = "Decimal.toRational" =>
        /\ ret.type = "Rational"
        /\ LET back == Rational_toDecimal(ret, receiver.scale)
           IN /\ back.type = "Decimal"
              /\ LET equal == Decimal_equalTo(back, receiver)
                 IN equal.type = "Boolean" /\ equal.value

(***************************************************************************)
(* C3: when the denominator has no prime factor other than 2 and 5, and    *)
(* the scale argument is not negative, toDecimal returns a Decimal whose   *)
(* value digits * 10^-scale is exactly numerator / denominator.            *)
(***************************************************************************)
C3_TerminatingExact ==
    (/\ call.op = "Rational.toDecimal"
     /\ OnlyTwosAndFives(receiver.denominator)
     /\ call.args[1] >= 0) =>
        /\ ret.type = "Decimal"
        /\ ret.digits * receiver.denominator = receiver.numerator * TenTo(ret.scale)

(***************************************************************************)
(* C4: when the denominator has a prime factor other than 2 and 5, and the *)
(* scale argument s is not negative, toDecimal returns a Decimal of scale  *)
(* s whose digits are numerator * 10^s / denominator truncated toward      *)
(* zero.                                                                   *)
(***************************************************************************)
C4_NonTerminatingTruncates ==
    (/\ call.op = "Rational.toDecimal"
     /\ ~OnlyTwosAndFives(receiver.denominator)
     /\ call.args[1] >= 0) =>
        /\ ret.type = "Decimal"
        /\ ret.scale = call.args[1]
        /\ ret.digits = TruncatedQuotient(receiver.numerator * TenTo(call.args[1]),
                                          receiver.denominator)

(***************************************************************************)
(* C5: simplify succeeds on every Rational and returns a Rational of the   *)
(* same value, with a positive denominator and no common divisor greater   *)
(* than 1; simplifying the result again leaves its fields unchanged.       *)
(***************************************************************************)
C5_SimplifyReduces ==
    call.op = "Rational.simplify" =>
        /\ ret.type = "Rational"
        /\ ret.denominator > 0
        /\ ret.numerator * receiver.denominator = receiver.numerator * ret.denominator
        /\ Coprime(ret.numerator, ret.denominator)
        /\ LET again == Rational_simplify(ret)
           IN /\ again.type = "Rational"
              /\ again.numerator = ret.numerator
              /\ again.denominator = ret.denominator

(***************************************************************************)
(* C6: dividedBy throws the division-by-zero RangeError exactly when some  *)
(* divisor is zero; otherwise it returns a Rational with a positive        *)
(* denominator whose value is the receiver divided by the product of the   *)
(* divisors.  Decimal.dividedBy does the same on the values of its         *)
(* operands.                                                               *)
(***************************************************************************)
C6_DividedBy ==
    /\ call.op = "Rational.dividedBy" =>
           LET zero == \E i \in DOMAIN call.args : call.args[i].numerator = 0
           IN /\ DivisionByZero(ret) <=> zero
              /\ ~zero =>
                    /\ ret.type = "Rational"
                    /\ ret.denominator > 0
                    /\ LowestTerms(ret.numerator, ret.denominator)
                       = LowestTerms(
                             receiver.numerator * DenominatorProduct(call.args, 1),
                             receiver.denominator * NumeratorProduct(call.args, 1))
    /\ call.op = "Decimal.dividedBy" =>
           LET zero == \E i \in DOMAIN call.args : call.args[i].digits = 0
           IN /\ DivisionByZero(ret) <=> zero
              /\ ~zero =>
                    /\ ret.type = "Rational"
                    /\ ret.denominator > 0
                    /\ LowestTerms(ret.numerator, ret.denominator)
                       = LowestTerms(
                             receiver.digits * TenTo(ScaleSum(call.args, 1)),
                             TenTo(receiver.scale) * DigitsProduct(call.args, 1))

C6_Witness ==
    /\ call.op = "Rational.dividedBy"
    /\ Len(call.args) = 2
    /\ receiver.numerator < 0
    /\ call.args[1].numerator < 0
    /\ call.args[2].numerator > 0
    /\ call.args[2].denominator > 1
    /\ ret.type = "Rational"
    /\ ret.numerator > 0

(***************************************************************************)
(* C7: new Rational(n, d) throws a RangeError exactly when d <= 0 and      *)
(* new Decimal(n, s) exactly when s < 0; every Rational that a call        *)
(* receives or returns has a positive denominator and every Decimal a      *)
(* scale that is not negative.                                             *)
(***************************************************************************)
C7_ConstructionInvariants ==
    /\ call.op = "new Rational" =>
           /\ ret.type = "RangeError" <=> call.args[2] <= 0
           /\ ret.type # "RangeError" =>
                 /\ ret.type = "Rational"
                 /\ ret.numerator = call.args[1]
                 /\ ret.denominator = call.args[2]
    /\ call.op = "new Decimal" =>
           /\ ret.type = "RangeError" <=> call.args[2] < 0
           /\ ret.type # "RangeError" =>
                 /\ ret.type = "Decimal"
                 /\ ret.digits = call.args[1]
                 /\ ret.scale = call.args[2]
    /\ receiver.type = "Rational" => receiver.denominator > 0
    /\ receiver.type = "Decimal" => receiver.scale >= 0
    /\ ret.type = "Rational" => ret.denominator > 0
    /\ ret.type = "Decimal" => ret.scale >= 0

C7_Witness ==
    /\ call.op = "new Decimal"
    /\ call.args[2] = -1
    /\ call.args[1] > 0
    /\ ret.type = "RangeError"

(***************************************************************************)
(* C8 as stated: for every non-zero integer k,                             *)
(* Rational(n, d).equalTo(Rational(n*k, d*k)) is true.                     *)
(***************************************************************************)
C8_Original ==
    (/\ call.op = "Rational.equalTo"
     /\ \E k \in (-MaxFactor..MaxFactor) \ {0} :
            call.args = <<receiver.numerator * k, receiver.denominator * k>>) =>
        /\ ret.type = "Boolean"
        /\ ret.value

(***************************************************************************)
(* C8 as amended: for every positive integer k,                            *)
(* Rational(n, d).equalTo(Rational(n*k, d*k)) is true.                     *)
(***************************************************************************)
C8_EqualToScaled ==
    (/\ call.op = "Rational.equalTo"
     /\ \E k \in 1..MaxFactor :
            call.args = <<receiver.numerator * k, receiver.denominator * k>>) =>
        /\ ret.type = "Boolean"
        /\ ret.value

C8_Witness ==
    /\ call.op = "Rational.equalTo"
    /\ receiver.numerator < 0
    /\ receiver.denominator > 1
    /\ call.args = <<receiver.numerator * 2, receiver.denominator * 2>>
    /\ ret.type = "Boolean"
    /\ ret.value

(***************************************************************************)
(* C9: min(x, y) is the smaller of x and y, as max(x, y) is the larger.    *)
(***************************************************************************)
C9_MinMax ==
    /\ call.op = "min" =>
           /\ ret.value <= call.args[1]
           /\ ret.value <= call.args[2]
           /\ ret.value \in {call.args[1], call.args[2]}
    /\ call.op = "max" =>
           /\ ret.value >= call.args[1]
           /\ ret.value >= call.args[2]
           /\ ret.value \in {call.args[1], call.args[2]}

(***************************************************************************)
(* C10: toString has the form [-]digits[.digits] with at least one digit   *)
(* before the point and exactly scale digits after it, and fromString of   *)
(* it has the digits and the scale of the receiver.                        *)
(***************************************************************************)
C10_TextRoundTrip ==
    call.op = "Decimal.toString" =>
        /\ DecimalForm(ret.chars, receiver.scale)
        /\ LET parsed == Decimal_fromString(ret.chars)
           IN /\ parsed.type = "Decimal"
              /\ parsed.digits = receiver.digits
              /\ parsed.scale = receiver.scale

====
